---- MODULE Spec2Model ----
(***************************************************************************)
(* Model of the GraphQL mutation layer of crm/schema.py: the four          *)
(* mutations CreateCustomer, BulkCreateCustomers, CreateProduct and        *)
(* CreateOrder over the tables Customer, Product and Order.                *)
(*                                                                         *)
(* Strings that the code inspects character by character (phones) are      *)
(* sequences of one-character strings.  Prices are amounts in minor units  *)
(* (550 is 5.50).  A table is the sequence of its rows in insertion order; *)
(* the generated id of a row is its position.                              *)
(***************************************************************************)
EXTENDS Integers, Sequences, FiniteSets, TLC

\* ------------------------------------------------------------------ bounds
MaxCustomers == 3      \* rows the Customer table may hold
MaxProducts  == 2      \* rows the Product table may hold
MaxOrders    == 2      \* rows the Order table may hold
MaxBulk      == 2      \* items of one BulkCreateCustomers input
MaxPids      == 2      \* ids of one CreateOrder product_ids list

VARIABLES
    customers,   \* Customer table
    products,    \* Product table
    orders,      \* Order table, each row with its products association
    result,      \* outcome of the last completed mutation
    pc,          \* position of each in-flight request
    req          \* locals of each in-flight request

vars == <<customers, products, orders, result, pc, req>>

\* ------------------------------------------------------------ sample inputs
CustomerNames == {"Ann"}
ProductNames  == {"pen", "ink"}
Emails        == {"a@x.io", "b@x.io"}

\* Python None for an optional argument: no sequence of characters
None == <<"None">>

PhoneIntl     == <<"+","1","5","5","5","1","2","3","4","5","6","7">>
PhoneDashed   == <<"5","5","5","-","1","2","3","-","4","5","6","7">>
PhoneAbc      == <<"a","b","c">>
PhoneShort    == <<"1","2","3","4","5","6">>
PhoneIntl9    == <<"+","1","2","3","4","5","6","7","8","9">>
PhoneIntl16   == <<"+","1","2","3","4","5","6","7","8","9","0","1","2","3","4","5","6">>
PhoneDashedNL == PhoneDashed \o <<"\n">>
PhoneEmpty    == <<>>

Phones == {None, PhoneEmpty, PhoneIntl, PhoneDashed, PhoneAbc, PhoneShort,
           PhoneIntl9, PhoneIntl16, PhoneDashedNL}

\* ------------------------------------------------------------- phone regex
IsDigit(c) == c \in {"0","1","2","3","4","5","6","7","8","9"}

\* `$' of Python's re without MULTILINE: the end of the string, or just
\* before a newline that is the last character.  i is the next position.
AtDollar(s, i) == \/ i = Len(s) + 1
                  \/ i = Len(s) /\ s[i] = "\n"

\* \+\d{n} matched from the start of s
MatchIntl(s, n) == /\ Len(s) >= n + 1
                   /\ s[1] = "+"
                   /\ \A k \in 2..(n + 1) : IsDigit(s[k])

\* \d{3}-\d{3}-\d{4} matched from the start of s
MatchDashed(s) == /\ Len(s) >= 12
                  /\ \A k \in {1,2,3,5,6,7,9,10,11,12} : IsDigit(s[k])
                  /\ s[4] = "-" /\ s[8] = "-"

\* re.match(r"^(\+\d{10,15}|\d{3}-\d{3}-\d{4})$", phone)
PhoneRegexMatch(s) ==
    \/ \E n \in 10..15 : MatchIntl(s, n) /\ AtDollar(s, n + 2)
    \/ MatchDashed(s) /\ AtDollar(s, 13)

\* truth value of `phone' in `if phone and ...'
Truthy(phone) == phone # None /\ phone # <<>>

\* ------------------------------------------------------------------- store
Range(s) == {s[i] : i \in DOMAIN s}

\* the check looks at the oldest row only
EmailExistsFirstRow(rows, email) == rows # <<>> /\ rows[1].email = email

\* Customer.objects.filter(email=email).exists()
EmailExists(rows, email) == \E i \in DOMAIN rows : rows[i].email = email

\* Customer.objects.create(name=..., email=..., phone=...)
CustomerCreate(rows, name, email, phone) ==
    Append(rows, [id |-> Len(rows) + 1, name |-> name, email |-> email,
                  phone |-> phone])

NoResult == [op |-> "none", args |-> <<>>, ok |-> TRUE, message |-> "",
             created |-> <<>>, errors |-> <<>>]

\* a mutation called with args that raised Exception(msg)
Raised(op, args, msg) == [op |-> op, args |-> args, ok |-> FALSE,
                          message |-> msg, created |-> <<>>, errors |-> <<>>]

\* a mutation called with args that returned the rows created, with the
\* message and the errors of its payload
Returned(op, args, msg, created, errors) ==
    [op |-> op, args |-> args, ok |-> TRUE, message |-> msg,
     created |-> created, errors |-> errors]

Procs == {1, 2}

\* the locals of a request that is not running
IdleReq == [op |-> "none", args |-> <<>>, i |-> 0, errors |-> <<>>,
            pending |-> <<>>, broken |-> FALSE, found |-> <<>>,
            order_id |-> 0]

Init == /\ customers = <<>>
        /\ products = <<>>
        /\ orders = <<>>
        /\ result = NoResult
        /\ pc = [p \in Procs |-> "idle"]
        /\ req = [p \in Procs |-> IdleReq]

\* ---------------------------------------------------------- CreateCustomer
CreateCustomer(name, email, phone) ==
    /\ Len(customers) < MaxCustomers
    /\ IF EmailExists(customers, email)
       THEN /\ result' = Raised("createCustomer", <<name, email, phone>>,
                                 "Email already exists")
            /\ customers' = customers
       ELSE IF Truthy(phone) /\ ~PhoneRegexMatch(phone)
       THEN /\ result' = Raised("createCustomer", <<name, email, phone>>,
                                 "Invalid phone format")
            /\ customers' = customers
       ELSE /\ customers' = CustomerCreate(customers, name, email, phone)
            /\ result' = Returned("createCustomer", <<name, email, phone>>,
                                   "Customer created successfully",
                                   <<customers'[Len(customers')]>>, <<>>)
    /\ UNCHANGED <<products, orders, pc, req>>

\* ----------------------------------------------------- BulkCreateCustomers
\* the loop ends at the first item that raises
RECURSIVE BulkLoopBreak(_, _, _, _, _)
BulkLoopBreak(rows, input, i, created, errors) ==
    IF i > Len(input)
    THEN [rows |-> rows, created |-> created, errors |-> errors]
    ELSE IF EmailExists(rows, input[i].email)
         THEN [rows |-> rows, created |-> created,
               errors |-> Append(errors, "Duplicate email")]
         ELSE LET rows2 == CustomerCreate(rows, input[i].name,
                                          input[i].email, input[i].phone)
              IN  BulkLoopBreak(rows2, input, i + 1,
                                Append(created, rows2[Len(rows2)]), errors)

\* the loop of lines 68-80 from item i on: the table, created and errors
RECURSIVE BulkLoop(_, _, _, _, _)
BulkLoop(rows, input, i, created, errors) ==
    IF i > Len(input)
    THEN [rows |-> rows, created |-> created, errors |-> errors]
    ELSE IF EmailExists(rows, input[i].email)
         THEN BulkLoop(rows, input, i + 1, created,
                       Append(errors, "Duplicate email"))
         ELSE LET rows2 == CustomerCreate(rows, input[i].name,
                                          input[i].email, input[i].phone)
              IN  BulkLoop(rows2, input, i + 1,
                           Append(created, rows2[Len(rows2)]), errors)

BulkCreateCustomers(input) ==
    /\ Len(customers) + Len(input) <= MaxCustomers
    /\ LET r == BulkLoop(customers, input, 1, <<>>, <<>>)
       IN  /\ customers' = r.rows
           /\ result' = Returned("bulkCreateCustomers", <<input>>, "",
                                  r.created, r.errors)
    /\ UNCHANGED <<products, orders, pc, req>>

\* items of a bulk input: the phone is stored as given, so three phones do
BulkPhones == {None, PhoneDashed, PhoneAbc}

CustomerInputs == [name : CustomerNames, email : Emails, phone : BulkPhones]

SeqUpTo(S, n) == UNION {[1..k -> S] : k \in 0..n}

NextCustomer ==
    \/ \E n \in CustomerNames, e \in Emails, p \in Phones : CreateCustomer(n, e, p)
    \/ \E input \in SeqUpTo(CustomerInputs, MaxBulk) : BulkCreateCustomers(input)

SpecCustomer == Init /\ [][NextCustomer]_vars

\* ----------------------------------------------------------- CreateProduct
\* stock=0 in the signature of mutate
DefaultStock == 0

\* the stock check is off by one: a stock of -1 passes
CreateProductStockOffByOne(name, price, stock) ==
    /\ Len(products) < MaxProducts
    /\ IF price <= 0
       THEN /\ result' = Raised("createProduct", <<name, price, stock>>,
                                 "Price must be positive")
            /\ products' = products
       ELSE IF stock < -1
       THEN /\ result' = Raised("createProduct", <<name, price, stock>>,
                                 "Stock cannot be negative")
            /\ products' = products
       ELSE /\ products' = Append(products,
                               [id |-> Len(products) + 1, name |-> name,
                                price |-> price, stock |-> stock])
            /\ result' = Returned("createProduct", <<name, price, stock>>, "",
                                   <<products'[Len(products')]>>, <<>>)
    /\ UNCHANGED <<customers, orders, pc, req>>

CreateProduct(name, price, stock) ==
    /\ Len(products) < MaxProducts
    /\ IF price <= 0
       THEN /\ result' = Raised("createProduct", <<name, price, stock>>,
                                 "Price must be positive")
            /\ products' = products
       ELSE IF stock < 0
       THEN /\ result' = Raised("createProduct", <<name, price, stock>>,
                                 "Stock cannot be negative")
            /\ products' = products
       ELSE /\ products' = Append(products,
                               [id |-> Len(products) + 1, name |-> name,
                                price |-> price, stock |-> stock])
            /\ result' = Returned("createProduct", <<name, price, stock>>, "",
                                   <<products'[Len(products')]>>, <<>>)
    /\ UNCHANGED <<customers, orders, pc, req>>

\* the call without the stock argument
CreateProductNoStock(name, price) == CreateProduct(name, price, DefaultStock)

Prices == {-1, 0, 550, 1000}
Stocks == {-1, 0, 5}

NextProduct ==
    \/ \E n \in ProductNames, pr \in Prices, st \in Stocks :
          CreateProduct(n, pr, st)
    \/ \E n \in ProductNames, pr \in Prices : CreateProductNoStock(n, pr)

SpecProduct == Init /\ [][NextProduct]_vars

\* ------------------------------------------------------------- CreateOrder
\* get finds a row as soon as the table has one
CustomerResolvesAny(rows, customer_id) == rows # <<>>

\* Customer.objects.get(id=customer_id) finds a row
CustomerResolves(rows, customer_id) == \E i \in DOMAIN rows : rows[i].id = customer_id

\* the rows of id__in come once per occurrence of their id in the list
RECURSIVE ProductsFilterPerOccurrence(_, _)
ProductsFilterPerOccurrence(rows, product_ids) ==
    IF product_ids = <<>> THEN <<>>
    ELSE SelectSeq(rows, LAMBDA r : r.id = product_ids[1])
           \o ProductsFilterPerOccurrence(rows, Tail(product_ids))

\* Product.objects.filter(id__in=product_ids): the rows, each once
ProductsFilter(rows, product_ids) ==
    SelectSeq(rows, LAMBDA r : r.id \in Range(product_ids))

\* the sum leaves out the last price
RECURSIVE SumPricesButLast(_)
SumPricesButLast(rows) ==
    IF Len(rows) <= 1 THEN 0 ELSE rows[1].price + SumPricesButLast(Tail(rows))

\* sum([p.price for p in products])
RECURSIVE SumPrices(_)
SumPrices(rows) ==
    IF rows = <<>> THEN 0 ELSE rows[1].price + SumPrices(Tail(rows))

\* Order.objects.create(customer=customer, total_amount=total): the row has
\* no products yet
OrderCreate(rows, customer_id, total) ==
    Append(rows, [id |-> Len(rows) + 1, customer |-> customer_id,
                  total_amount |-> total, products |-> {}])

\* order.products.set(products) on the order with this id
OrderSetProducts(rows, order_id, found) ==
    [rows EXCEPT ![order_id].products = {found[i].id : i \in DOMAIN found}]

CreateOrder(customer_id, product_ids) ==
    /\ Len(orders) < MaxOrders
    /\ IF product_ids = <<>>
       THEN /\ result' = Raised("createOrder", <<customer_id, product_ids>>,
                                 "At least one product is required")
            /\ orders' = orders
       ELSE IF ~CustomerResolves(customers, customer_id)
       THEN /\ result' = Raised("createOrder", <<customer_id, product_ids>>,
                                 "Invalid customer ID")
            /\ orders' = orders
       ELSE LET found == ProductsFilter(products, product_ids) IN
            IF Len(found) # Len(product_ids)
            THEN /\ result' = Raised("createOrder",
                                      <<customer_id, product_ids>>,
                                      "Invalid product ID")
                 /\ orders' = orders
            ELSE /\ orders' = OrderSetProducts(
                                 OrderCreate(orders, customer_id,
                                             SumPrices(found)),
                                 Len(orders) + 1, found)
                 /\ result' = Returned("createOrder",
                                        <<customer_id, product_ids>>, "",
                                        <<orders'[Len(orders')]>>, <<>>)
    /\ UNCHANGED <<customers, products, pc, req>>

\* ids a client may send: an id resolves or not according to the rows that
\* the tables hold when it is sent
CustomerIds == {1, 2}
ProductIds  == 1..MaxProducts

OrderPrices == {550, 1000}

NextOrder ==
    \/ CreateCustomer("Ann", "a@x.io", None)
    \/ \E pr \in OrderPrices : CreateProductNoStock("pen", pr)
    \/ \E c \in CustomerIds, ids \in SeqUpTo(ProductIds, MaxPids) :
          CreateOrder(c, ids)

SpecOrder == Init /\ [][NextOrder]_vars

\* ------------------------------------------------- requests run concurrently
\* Each request is a process; every query or write it sends to the store is
\* one step.  Outside transaction.atomic() a statement is committed as it
\* runs.  Inside it, the rows written are private to the request until the
\* block exits, and an insert that meets the uncommitted row of another
\* request with the same unique key waits until that request has ended.
\* Customer.email is unique in the data model (the model class is declared
\* in crm/models.py), so the store refuses a second row with an email.  The
\* mutations run one after the other never meet the index, because each
\* insert follows its own exists() query.

\* the unique index never refuses a row
UniqueViolationNever(rows, email) == FALSE

\* the unique index of Customer.email refuses a second row with this email
UniqueViolation(rows, email) == \E i \in DOMAIN rows : rows[i].email = email

\* another request holds an uncommitted row with this email
LockedByOther(p, email) ==
    \E q \in Procs \ {p} :
        \E k \in DOMAIN req[q].pending : req[q].pending[k].email = email

\* the rows of a committed block, appended in the order of their inserts
RECURSIVE CommitRows(_, _)
CommitRows(rows, pending) ==
    IF pending = <<>> THEN rows
    ELSE CommitRows(CustomerCreate(rows, pending[1].name, pending[1].email,
                                   pending[1].phone), Tail(pending))

\* CreateCustomer, lines 33-37: the exists() query and the phone check
CreateCustomerStart(p, name, email, phone) ==
    /\ pc[p] = "idle"
    /\ Len(customers) < MaxCustomers
    /\ IF EmailExists(customers, email)
       THEN /\ result' = Raised("createCustomer", <<name, email, phone>>,
                                 "Email already exists")
            /\ UNCHANGED <<pc, req>>
       ELSE IF Truthy(phone) /\ ~PhoneRegexMatch(phone)
       THEN /\ result' = Raised("createCustomer", <<name, email, phone>>,
                                 "Invalid phone format")
            /\ UNCHANGED <<pc, req>>
       ELSE /\ pc' = [pc EXCEPT ![p] = "cc_insert"]
            /\ req' = [req EXCEPT ![p] = [IdleReq EXCEPT
                          !.op = "createCustomer",
                          !.args = <<name, email, phone>>]]
            /\ UNCHANGED result
    /\ UNCHANGED <<customers, products, orders>>

\* CreateCustomer, lines 39-44: the insert and the response
CreateCustomerInsert(p) ==
    /\ pc[p] = "cc_insert"
    /\ ~LockedByOther(p, req[p].args[2])
    /\ IF UniqueViolation(customers, req[p].args[2])
       THEN /\ result' = Raised("createCustomer", req[p].args,
                                 "IntegrityError")
            /\ customers' = customers
       ELSE /\ customers' = CustomerCreate(customers, req[p].args[1],
                                           req[p].args[2], req[p].args[3])
            /\ result' = Returned("createCustomer", req[p].args,
                                   "Customer created successfully",
                                   <<customers'[Len(customers')]>>, <<>>)
    /\ pc' = [pc EXCEPT ![p] = "idle"]
    /\ req' = [req EXCEPT ![p] = IdleReq]
    /\ UNCHANGED <<products, orders>>

\* BulkCreateCustomers, lines 64-67: the lists and the start of the block
BulkStart(p, input) ==
    /\ pc[p] = "idle"
    /\ Len(customers) + Len(input) <= MaxCustomers
    /\ pc' = [pc EXCEPT ![p] = "bulk_check"]
    /\ req' = [req EXCEPT ![p] = [IdleReq EXCEPT
                  !.op = "bulkCreateCustomers", !.args = <<input>>, !.i = 1]]
    /\ UNCHANGED <<customers, products, orders, result>>

\* lines 69-71 and 79-80 for item i: the exists() query, which sees the
\* committed rows and the rows of this block; in a block that the store has
\* aborted the query raises, and the exception is recorded like any other
BulkCheck(p) ==
    /\ pc[p] = "bulk_check"
    /\ req[p].i <= Len(req[p].args[1])
    /\ LET data == req[p].args[1][req[p].i] IN
       IF req[p].broken
       THEN /\ req' = [req EXCEPT ![p].errors = Append(@, "TransactionAborted"),
                                  ![p].i = @ + 1]
            /\ pc' = pc
       ELSE IF EmailExists(customers \o req[p].pending, data.email)
       THEN /\ req' = [req EXCEPT ![p].errors = Append(@, "Duplicate email"),
                                  ![p].i = @ + 1]
            /\ pc' = pc
       ELSE /\ pc' = [pc EXCEPT ![p] = "bulk_insert"]
            /\ req' = req
    /\ UNCHANGED <<customers, products, orders, result>>

\* lines 73-80 for item i: the insert.  A row refused by the unique index
\* raises IntegrityError, which line 79 catches; whether the store then goes
\* on with the block or aborts it depends on the store, so both happen.
BulkInsert(p) ==
    /\ pc[p] = "bulk_insert"
    /\ LET data == req[p].args[1][req[p].i] IN
       /\ ~LockedByOther(p, data.email)
       /\ IF UniqueViolation(customers, data.email)
          THEN \E aborts \in BOOLEAN :
                  req' = [req EXCEPT
                             ![p].errors = Append(@, "IntegrityError"),
                             ![p].broken = aborts,
                             ![p].i = @ + 1]
          ELSE req' = [req EXCEPT
                          ![p].pending = Append(@,
                              [name |-> data.name, email |-> data.email,
                               phone |-> data.phone]),
                          ![p].i = @ + 1]
    /\ pc' = [pc EXCEPT ![p] = "bulk_check"]
    /\ UNCHANGED <<customers, products, orders, result>>

\* lines 73-80 for item i when two blocks wait for each other's rows: the
\* store ends the wait by failing the insert of one and aborting its block
BulkDeadlock(p) ==
    /\ pc[p] = "bulk_insert"
    /\ \E q \in Procs \ {p} :
          /\ pc[q] = "bulk_insert"
          /\ LockedByOther(p, req[p].args[1][req[p].i].email)
          /\ LockedByOther(q, req[q].args[1][req[q].i].email)
    /\ req' = [req EXCEPT ![p].errors = Append(@, "DeadlockDetected"),
                          ![p].broken = TRUE,
                          ![p].i = @ + 1]
    /\ pc' = [pc EXCEPT ![p] = "bulk_check"]
    /\ UNCHANGED <<customers, products, orders, result>>

\* the exit of the block of line 67, and line 82: the rows are committed,
\* or dropped when the store has aborted the block; the response lists the
\* objects of the rows inserted either way
BulkCommit(p) ==
    /\ pc[p] = "bulk_check"
    /\ req[p].i > Len(req[p].args[1])
    /\ LET rows == CommitRows(customers, req[p].pending) IN
       /\ customers' = IF req[p].broken THEN customers ELSE rows
       /\ result' = Returned("bulkCreateCustomers", req[p].args, "",
                             SubSeq(rows, Len(customers) + 1, Len(rows)),
                             req[p].errors)
    /\ pc' = [pc EXCEPT ![p] = "idle"]
    /\ req' = [req EXCEPT ![p] = IdleReq]
    /\ UNCHANGED <<products, orders>>

ConcPhones == {None, PhoneAbc}
ConcInputs == [name : CustomerNames, email : Emails, phone : {None}]

NextCustomerInterleaved ==
    \E p \in Procs :
        \/ \E n \in CustomerNames, e \in Emails, ph \in ConcPhones :
              CreateCustomerStart(p, n, e, ph)
        \/ CreateCustomerInsert(p)
        \/ \E input \in SeqUpTo(ConcInputs, MaxBulk) : BulkStart(p, input)
        \/ BulkCheck(p)
        \/ BulkInsert(p)
        \/ BulkDeadlock(p)
        \/ BulkCommit(p)

SpecCustomerInterleaved == Init /\ [][NextCustomerInterleaved]_vars

\* CreateOrder, lines 115-121: the empty list check and the customer query
OrderStart(p, customer_id, product_ids) ==
    /\ pc[p] = "idle"
    /\ Len(orders) + Cardinality({q \in Procs : req[q].op = "createOrder"
                                                 /\ req[q].order_id = 0})
          < MaxOrders
    /\ IF product_ids = <<>>
       THEN /\ result' = Raised("createOrder", <<customer_id, product_ids>>,
                                 "At least one product is required")
            /\ UNCHANGED <<pc, req>>
       ELSE IF ~CustomerResolves(customers, customer_id)
       THEN /\ result' = Raised("createOrder", <<customer_id, product_ids>>,
                                 "Invalid customer ID")
            /\ UNCHANGED <<pc, req>>
       ELSE /\ pc' = [pc EXCEPT ![p] = "order_count"]
            /\ req' = [req EXCEPT ![p] = [IdleReq EXCEPT
                          !.op = "createOrder",
                          !.args = <<customer_id, product_ids>>]]
            /\ UNCHANGED result
    /\ UNCHANGED <<customers, products, orders>>

\* lines 123-125: the count() query
OrderCount(p) ==
    /\ pc[p] = "order_count"
    /\ IF Len(ProductsFilter(products, req[p].args[2])) # Len(req[p].args[2])
       THEN /\ result' = Raised("createOrder", req[p].args,
                                 "Invalid product ID")
            /\ pc' = [pc EXCEPT ![p] = "idle"]
            /\ req' = [req EXCEPT ![p] = IdleReq]
       ELSE /\ pc' = [pc EXCEPT ![p] = "order_insert"]
            /\ UNCHANGED <<req, result>>
    /\ UNCHANGED <<customers, products, orders>>

\* lines 127-132: the query of the products, the total and the insert of
\* the order row
OrderInsert(p) ==
    /\ pc[p] = "order_insert"
    /\ LET found == ProductsFilter(products, req[p].args[2]) IN
       /\ orders' = OrderCreate(orders, req[p].args[1], SumPrices(found))
       /\ req' = [req EXCEPT ![p].found = found,
                             ![p].order_id = Len(orders) + 1]
    /\ pc' = [pc EXCEPT ![p] = "order_set"]
    /\ UNCHANGED <<customers, products, result>>

\* lines 133-135: the write of the associations, and the response
OrderSet(p) ==
    /\ pc[p] = "order_set"
    /\ orders' = OrderSetProducts(orders, req[p].order_id, req[p].found)
    /\ result' = Returned("createOrder", req[p].args, "",
                          <<orders'[req[p].order_id]>>, <<>>)
    /\ pc' = [pc EXCEPT ![p] = "idle"]
    /\ req' = [req EXCEPT ![p] = IdleReq]
    /\ UNCHANGED <<customers, products>>

NextOrderInterleaved ==
    \/ \E pr \in OrderPrices : CreateProductNoStock("pen", pr)
    \/ \E p \in Procs :
        \/ CreateCustomerStart(p, "Ann", "a@x.io", None)
        \/ CreateCustomerInsert(p)
        \/ \E c \in CustomerIds, ids \in SeqUpTo(ProductIds, MaxPids) :
              OrderStart(p, c, ids)
        \/ OrderCount(p)
        \/ OrderInsert(p)
        \/ OrderSet(p)

SpecOrderInterleaved == Init /\ [][NextOrderInterleaved]_vars

\* ====================================================== claims on customers

\* the two formats of the data model, matched against the whole string
FormatIntl(s) == /\ Len(s) \in 11..16
                 /\ s[1] = "+"
                 /\ \A k \in 2..Len(s) : IsDigit(s[k])

FormatDashed(s) == /\ Len(s) = 12
                   /\ \A k \in {1,2,3,5,6,7,9,10,11,12} : IsDigit(s[k])
                   /\ s[4] = "-" /\ s[8] = "-"

PhoneFormatOK(s) == FormatIntl(s) \/ FormatDashed(s)

EmailsPersisted == {customers[i].email : i \in DOMAIN customers}

CustomerIdsPersisted == {customers[i].id : i \in DOMAIN customers}

\* a phone is present when it is neither None nor the empty string
PhonePresent(phone) == phone # None /\ phone # <<>>

\* C1: no two persisted customers have the same email, in every state
\* reachable by CreateCustomer and BulkCreateCustomers calls run one after
\* the other from the empty store.
C1_EmailUnique ==
    \A i, j \in DOMAIN customers :
        i # j => customers[i].email # customers[j].email

\* a bulk call on the empty store whose input held one email twice: one row
\* created, one error
C1_Witness ==
    /\ result.op = "bulkCreateCustomers"
    /\ Len(result.created) = 1 /\ Len(result.errors) = 1
    /\ Len(customers) = 1

\* C2: every persisted customer whose phone is present has a phone in one
\* of the two allowed formats, whichever mutation persisted it.
C2_PhoneFormat ==
    \A i \in DOMAIN customers :
        PhonePresent(customers[i].phone) => PhoneFormatOK(customers[i].phone)

\* C3: CreateCustomer fails when the email exists or when the phone is
\* present and in neither format, a failed call leaves the Customer table
\* unchanged, and a successful call adds exactly one row with a new email.
C3_CreateCustomerFails ==
    [][LET n == result'.args[1]
           e == result'.args[2]
           p == result'.args[3]
       IN (result'.op = "createCustomer" /\ CreateCustomer(n, e, p)) =>
            /\ (e \in EmailsPersisted
                    \/ (PhonePresent(p) /\ ~PhoneFormatOK(p)))
                  => ~result'.ok
            /\ ~result'.ok => customers' = customers
            /\ result'.ok =>
                  /\ ~e \in EmailsPersisted
                  /\ Len(customers') = Len(customers) + 1]_vars

\* C4: BulkCreateCustomers never fails as a whole; in input order, an item
\* whose email is persisted before the call or by an earlier item adds one
\* error and no row, every other item adds one row that is returned in
\* customers and stays persisted.
DupItem(input, i) ==
    \/ input[i].email \in EmailsPersisted
    \/ \E j \in 1..(i - 1) : input[j].email = input[i].email

Fresh(input) == {i \in DOMAIN input : ~DupItem(input, i)}

\* the k-th item of the input that is not a duplicate
KthFresh(input, k) ==
    CHOOSE i \in Fresh(input) :
        Cardinality({j \in Fresh(input) : j <= i}) = k

C4_BulkPartialSuccess ==
    [][LET input == result'.args[1]
       IN (result'.op = "bulkCreateCustomers" /\ BulkCreateCustomers(input)) =>
            /\ result'.ok
            /\ Len(result'.created) + Len(result'.errors) = Len(input)
            /\ Len(result'.errors) = Len(input) - Cardinality(Fresh(input))
            /\ Len(customers') = Len(customers) + Len(result'.created)
            /\ SubSeq(customers', 1, Len(customers)) = customers
            /\ \A k \in DOMAIN result'.created :
                  /\ customers'[Len(customers) + k] = result'.created[k]
                  /\ result'.created[k].name = input[KthFresh(input, k)].name
                  /\ result'.created[k].email = input[KthFresh(input, k)].email
                  /\ result'.created[k].phone = input[KthFresh(input, k)].phone]_vars

\* a bulk call with one item created and one item refused for an email that
\* was persisted before the call
C4_Witness ==
    /\ result.op = "bulkCreateCustomers"
    /\ Len(result.created) = 1 /\ Len(result.errors) = 1
    /\ Len(customers) = 2
    /\ customers[2] = result.created[1]

\* ======================================================= claims on products

\* C5: CreateProduct fails and persists nothing when price <= 0 or
\* stock < 0, otherwise it persists exactly one product with the given name,
\* price and stock, the stock being 0 when the argument is omitted; so every
\* persisted product has price > 0 and stock >= 0.
C5_CreateProduct ==
    /\ [](\A i \in DOMAIN products :
             products[i].price > 0 /\ products[i].stock >= 0)
    /\ [][LET n  == result'.args[1]
              pr == result'.args[2]
              st == result'.args[3]
          IN (result'.op = "createProduct" /\ CreateProduct(n, pr, st)) =>
               IF pr <= 0 \/ st < 0
               THEN ~result'.ok /\ products' = products
               ELSE /\ result'.ok
                    /\ Len(products') = Len(products) + 1
                    /\ SubSeq(products', 1, Len(products)) = products
                    /\ products'[Len(products')].name = n
                    /\ products'[Len(products')].price = pr
                    /\ products'[Len(products')].stock = st]_vars
    /\ [][LET n  == result'.args[1]
              pr == result'.args[2]
          IN (result'.op = "createProduct" /\ CreateProductNoStock(n, pr)
                                           /\ pr > 0) =>
               /\ Len(products') = Len(products) + 1
               /\ products'[Len(products')].stock = 0]_vars

\* a call refused for its negative stock alone, after a product was created
C5_Witness ==
    /\ result.op = "createProduct" /\ ~result.ok
    /\ result.args[2] > 0 /\ result.args[3] < 0
    /\ Len(products) = 1

\* ========================================================= claims on orders

\* the price of the persisted product with this id
PriceOf(id) == (CHOOSE r \in Range(products) : r.id = id).price

RECURSIVE SumOverIds(_)
SumOverIds(ids) ==
    IF ids = {} THEN 0
    ELSE LET x == CHOOSE x \in ids : TRUE
         IN  PriceOf(x) + SumOverIds(ids \ {x})

ProductIdsPersisted == {products[i].id : i \in DOMAIN products}

\* what must hold of a persisted order
OrderConsistent(o) ==
    /\ o.customer \in CustomerIdsPersisted
    /\ o.products # {}
    /\ o.products \subseteq ProductIdsPersisted
    /\ o.total_amount = SumOverIds(o.products)

\* C6: every persisted order references an existing customer, has a
\* non-empty set of products, and has total_amount equal to the sum of the
\* prices of exactly the products associated with it.
C6_OrderInvariant == \A k \in DOMAIN orders : OrderConsistent(orders[k])

\* an order of the two products priced 10.00 and 5.50, total 15.50
C6_Witness ==
    \E k \in DOMAIN orders :
        /\ Cardinality(orders[k].products) = 2
        /\ orders[k].total_amount = 1550

\* C7: CreateOrder fails when the product id list is empty, when the
\* customer id does not resolve or when a product id does not resolve, and
\* then persists no order and no association; the empty list is reported
\* first, the customer next.
C7_CreateOrderFails ==
    [][LET c   == result'.args[1]
           ids == result'.args[2]
       IN (result'.op = "createOrder" /\ CreateOrder(c, ids)) =>
            /\ ids = <<>> =>
                 /\ ~result'.ok
                 /\ result'.message = "At least one product is required"
            /\ ~c \in CustomerIdsPersisted => ~result'.ok
            /\ (ids # <<>> /\ ~c \in CustomerIdsPersisted) =>
                 result'.message = "Invalid customer ID"
            /\ (\E k \in DOMAIN ids : ids[k] \notin ProductIdsPersisted) =>
                 ~result'.ok
            /\ ~result'.ok => orders' = orders]_vars

\* an empty list sent with a customer id that does not resolve
C7_Witness ==
    /\ result.op = "createOrder" /\ ~result.ok
    /\ result.args[2] = <<>>
    /\ ~result.args[1] \in CustomerIdsPersisted
    /\ result.message = "At least one product is required"

\* C9: with a resolving customer and a non-empty list, CreateOrder answers
\* 'Invalid product ID' exactly when the number of distinct persisted
\* products whose id occurs in the list differs from the length of the
\* list; a list of resolving ids with a repetition is rejected, a list of
\* pairwise distinct resolving ids is accepted.
Repeats(ids) == \E i, j \in DOMAIN ids : i # j /\ ids[i] = ids[j]

C9_CountMismatch ==
    [][LET c   == result'.args[1]
           ids == result'.args[2]
       IN (result'.op = "createOrder" /\ CreateOrder(c, ids)
             /\ c \in CustomerIdsPersisted /\ ids # <<>>) =>
            /\ (~result'.ok /\ result'.message = "Invalid product ID")
                 <=> Cardinality(ProductIdsPersisted \cap Range(ids))
                        # Len(ids)
            /\ (Range(ids) \subseteq ProductIdsPersisted /\ Repeats(ids))
                 => ~result'.ok
            /\ (Range(ids) \subseteq ProductIdsPersisted /\ ~Repeats(ids))
                 => /\ result'.ok
                    /\ orders'[Len(orders')].products = Range(ids)]_vars

\* the list [p, p] of a persisted product, refused
C9_Witness ==
    /\ result.op = "createOrder" /\ ~result.ok
    /\ result.message = "Invalid product ID"
    /\ result.args[1] \in CustomerIdsPersisted
    /\ Len(result.args[2]) = 2
    /\ result.args[2][1] = result.args[2][2]
    /\ result.args[2][1] \in ProductIdsPersisted

\* ================================================= claims on interleavings

\* C8: an order is created atomically: in no state that another request can
\* observe does an order exist with an empty product set or with a
\* total_amount that differs from the sum of its products' prices.
C8_OrderAtomic ==
    \A k \in DOMAIN orders :
        /\ orders[k].products # {}
        /\ orders[k].total_amount = SumOverIds(orders[k].products)

====
